---- MODULE Spec2Model ----
(***************************************************************************)
(* Real-time state streaming and fan-out engine of the NBA shot predictor. *)
(*                                                                         *)
(*   server.py            seed / tick handlers, session store, broadcast   *)
(*   NBA_data_pipeline.py aggregator (fetch_game_data) and stream loop     *)
(*                                                                         *)
(* Number representation.  Court coordinates are fixed-point in quarter    *)
(* feet (x = 92 is 23.0 ft, the basket reference y = 22 is 5.5 ft, the     *)
(* three-point threshold 95 is 23.75 ft).  Samples of random.random() are  *)
(* per-mille (700 is 0.7).  Comparisons of distances are made on squares,  *)
(* so they are exact; a velocity component is truncated toward zero to the *)
(* grid.  The timestamp field is left out of the snapshot.                 *)
(*                                                                         *)
(* Clocks are IEEE 754 doubles.  A clock c stands for the number           *)
(*     Tenths(c) / 10  +  Deviation(c) * 2^-51 / 5     seconds,            *)
(* with c = Tenths(c) * ClockScale + Deviation(c).  One tenth is exactly   *)
(* 2^50 units of 2^-51 / 5, and the doubles of the binade [2^k, 2^(k+1))   *)
(* are the multiples of 5 * 2^(k-1) units, so a literal and a difference   *)
(* are rounded to the nearest double, ties to even, with small integers.   *)
(* The order of the encodings is the order of the numbers.                 *)
(***************************************************************************)
EXTENDS Integers, Sequences, FiniteSets, TLC

VARIABLES
    redis_client,   \* "connected", or "none" when init_redis returned None
    store,          \* redis: the keys game_state:{game_id} and their snapshots
    published,      \* game_id -> the update last handed to broadcast_update
    lastOp,         \* the handler that ran last and the status it answered
    lastIn,         \* <<the snapshot the last tick computed from>>, or << >>
    ops,            \* number of handler runs so far
    active_connections, \* game_id -> list of the registered websockets
    ws,             \* websocket -> its websocket_endpoint coroutine and client
    pub,            \* publish call -> its broadcast_update coroutine
    current_game_data,  \* StreamProcessor.current_game_data
    stream          \* the process_stream coroutine and its fetch_game_data call

simVars == <<redis_client, store, published, lastOp, lastIn, ops>>

hubVars == <<active_connections, ws, pub>>

loopVars == <<current_game_data, stream>>

vars == <<redis_client, store, published, lastOp, lastIn, ops,
          active_connections, ws, pub, current_game_data, stream>>

-----------------------------------------------------------------------------
(* Bounds of the model *)

\* handler runs (seed or tick) explored after start-up
MaxOps == 2

\* ticks explored on a snapshot that another writer left in the store
MaxForeignTicks == 1

\* websocket connections made
MaxSockets == 3

\* calls of broadcast_update made, any of them concurrently
MaxPublishes == 2

\* iterations of the process_stream loop
MaxLoopTicks == 2

\* frames a client sends on its connection
MaxFrames == 2

\* seed and tick requests made while clients are connected
MaxCalls == 2

\* websocket connections made to the two sessions
MaxSubscribers == 2

\* seed and tick requests made to the two sessions, any of them concurrently
MaxRequests == 2

-----------------------------------------------------------------------------
(* Double-precision clocks *)

\* a clock is its nearest tenth times ClockScale plus its deviation from
\* that tenth, counted in units of 2^-51 / 5 s
ClockScale == 10000

Tenths(c) == (c + ClockScale \div 2) \div ClockScale

Deviation(c) == c - Tenths(c) * ClockScale

RECURSIVE Pow2Mod(_, _)
Pow2Mod(n, m) == IF n = 0 THEN 1 % m ELSE (2 * Pow2Mod(n - 1, m)) % m

\* the spacings of the doubles of the binades [2, 4) .. [1024, 2048), in units
Spacings == { 5, 10, 20, 40, 80, 160, 320, 640, 1280, 2560 }

\* one tenth, 2^50 units, modulo a spacing or twice a spacing
TenthMod == [g \in Spacings \cup { 2 * h : h \in Spacings } |-> Pow2Mod(50, g)]

\* the spacing of the doubles around c, for 2 <= c < 2048 seconds
RECURSIVE Spacing(_, _, _)
Spacing(c, g, limit) ==
    IF c < limit THEN g ELSE Spacing(c, 2 * g, 2 * limit)

\* c modulo g, from the exact value Tenths(c) * 2^50 + Deviation(c)
Residue(c, g) ==
    (Tenths(c) * TenthMod[g] + Deviation(c) + g * ClockScale) % g

\* the double nearest to c, ties to the even multiple of the spacing.  A
\* value below 2 s is left as it is: as the difference of two doubles of
\* which the smaller is at least 2 it is a double (Sterbenz), and a
\* negative one only has its sign looked at
RoundToDouble(c) ==
    IF c < 20 * ClockScale THEN c
    ELSE LET g == Spacing(c, 5, 40 * ClockScale)
             r == Residue(c, g)
         IN  IF 2 * r < g THEN c - r
             ELSE IF 2 * r > g THEN c + (g - r)
             ELSE IF Residue(c, 2 * g) = r THEN c - r ELSE c + (g - r)

\* the literal with the given number of tenths, as Python reads it
Double(tenths) == RoundToDouble(tenths * ClockScale)

\* a - b in double arithmetic
FloatSub(a, b) == RoundToDouble(a - b)

-----------------------------------------------------------------------------
(* Program constants *)

ShotClockStart == Double(240)
GameClockStart == Double(7200)
ShotClockStep == Double(24)
GameClockStep == Double(240)
ShotThreshold == 700
BasketY == 22
ThreePointLine == 95
MinShotProbability == 200
XBound == 92
YMin == 8
YMax == 180

GameIds == {"g1"}

\* n feet on the quarter-foot grid
Ft(n) == 4 * n

Max(a, b) == IF a >= b THEN a ELSE b

Min(a, b) == IF a <= b THEN a ELSE b

Abs(a) == IF a >= 0 THEN a ELSE 0 - a

Sign(a) == IF a > 0 THEN 1 ELSE IF a < 0 THEN 0 - 1 ELSE 0

-----------------------------------------------------------------------------
(* create_test_data: the seeded snapshot *)

TestPlayer(id, px, py) ==
    [player_id |-> id, role |-> id, x |-> px, y |-> py,
     velocity_x |-> 0, velocity_y |-> 0, team_id |-> "team1",
     is_shooting |-> FALSE, shot_made |-> FALSE]

TestData(game_id) ==
    [game_state |->
        [game_id |-> game_id,
         shot_clock |-> ShotClockStart,
         game_clock |-> GameClockStart,
         quarter |-> 1,
         score_home |-> 0,
         score_away |-> 0,
         last_action |-> [text |-> "Game started", player |-> "", points |-> 0]],
     player_positions |->
        << TestPlayer("PG", Ft(0), Ft(30)),
           TestPlayer("SG", Ft(0 - 15), Ft(25)),
           TestPlayer("C", Ft(0), Ft(10)) >>]

-----------------------------------------------------------------------------
(* simulate_game_update: one tick of the simulation *)

\* the clock decrement without its floor
ClockStepUnfloored(clock, step) == FloatSub(clock, step)

\* lines 306-307: max(0, float(clock) - step)
ClockStep(clock, step) == Max(0, FloatSub(clock, step))

\* the previous shooting states left as they are
ClearNothing(players) == players

\* only is_shooting cleared
ClearShootingOnly(players) ==
    [i \in DOMAIN players |-> [players[i] EXCEPT !.is_shooting = FALSE]]

\* the flags cleared into a list that runs from the last player to the first
ClearedInReverse(players) ==
    [i \in DOMAIN players |->
        [players[Len(players) + 1 - i] EXCEPT !.is_shooting = FALSE,
                                              !.shot_made = FALSE]]

\* lines 310-312: clear the previous shooting states
ClearFlags(players) ==
    [i \in DOMAIN players |->
        [players[i] EXCEPT !.is_shooting = FALSE, !.shot_made = FALSE]]

\* line 321, squared: x**2 + (y - 5.5)**2
DistanceSq(p) == p.x * p.x + (p.y - BasketY) * (p.y - BasketY)

\* the line itself counted as a three-pointer
IsThreePointerOnLine(p) == DistanceSq(p) >= ThreePointLine * ThreePointLine

\* line 322: distance_to_basket > 23.75
IsThreePointer(p) == DistanceSq(p) > ThreePointLine * ThreePointLine

\* lines 325-328: random.random() < max(0.2, 1 - distance / 50), for the
\* per-mille sample r: r < 1000 - 5 * sqrt(DistanceSq)
ShotMade(p, r) ==
    \/ r < MinShotProbability
    \/ 25 * DistanceSq(p) < (1000 - r) * (1000 - r)

\* lines 372-373: (d / distance) * speed, truncated toward zero
Component(d, distSq, speed) ==
    LET m == CHOOSE v \in 0..speed :
                 /\ v * v * distSq <= d * d * speed * speed
                 /\ \A w \in (v + 1)..speed :
                        w * w * distSq > d * d * speed * speed
    IN  Sign(d) * m

\* y clamped, x left as it is
ClampYOnly(p) == [p EXCEPT !.y = Max(YMin, Min(YMax, p.y))]

\* lines 378-379: keep the player in bounds
Clamp(p) ==
    [p EXCEPT !.x = Max(0 - XBound, Min(XBound, p.x)),
              !.y = Max(YMin, Min(YMax, p.y))]

\* lines 365-379: move one player toward the target and clamp
MovePlayer(p, target, speed) ==
    LET dx == target[1] - p.x
        dy == target[2] - p.y
        distSq == dx * dx + dy * dy
        vx == Component(dx, distSq, speed)
        vy == Component(dy, distSq, speed)
        moved == IF distSq > 0
                 THEN [p EXCEPT !.velocity_x = vx, !.velocity_y = vy,
                                !.x = p.x + vx, !.y = p.y + vy]
                 ELSE p
    IN  Clamp(moved)

\* target_x, target_y before any assignment
Unbound == << >>

\* lines 350-362: the role's target; for any other role target_x and
\* target_y keep the values of the previous loop iteration
RoleTarget(role, draw, previous) ==
    IF role \in {"PG", "SG", "C"} THEN draw.target ELSE previous

\* lines 343-379: the movement loop from player i on; target is the value
\* target_x, target_y hold on entry.  When a player of an unknown role is
\* reached before any target was assigned, reading target_x raises
\* UnboundLocalError.
RECURSIVE MoveLoop(_, _, _, _)
MoveLoop(players, i, target, draws) ==
    IF i > Len(players) THEN [raised |-> FALSE, players |-> players]
    ELSE IF players[i].is_shooting
         THEN MoveLoop(players, i + 1, target, draws)
         ELSE LET t == RoleTarget(players[i].role, draws[i], target)
              IN  IF t = Unbound THEN [raised |-> TRUE, players |-> players]
                  ELSE MoveLoop([players EXCEPT
                                    ![i] = MovePlayer(players[i], t, draws[i].speed)],
                                i + 1, t, draws)

\* the shooter flagged and brought to a stop
SetShooterStopped(players, s, made) ==
    [players EXCEPT ![s] = [@ EXCEPT !.is_shooting = TRUE, !.shot_made = made,
                                     !.velocity_x = 0, !.velocity_y = 0]]

\* lines 318-332: the shooter's flags
SetShooter(players, s, made) ==
    [players EXCEPT ![s] = [@ EXCEPT !.is_shooting = TRUE, !.shot_made = made]]

\* a shot that counts two points whether it was made or missed
MissCounted(gs, shooter, made) ==
    [gs EXCEPT !.score_home = @ + 2,
               !.last_action = [text |-> IF made THEN "made" ELSE "missed",
                                player |-> shooter.player_id,
                                points |-> 2]]

\* the points of a made shot credited to the away side
ScoredForAway(gs, shooter, made) ==
    LET pts == IF IsThreePointer(shooter) THEN 3 ELSE 2
    IN  IF made
        THEN [gs EXCEPT !.score_away = @ + pts,
                        !.last_action = [text |-> "made",
                                         player |-> shooter.player_id,
                                         points |-> pts]]
        ELSE [gs EXCEPT !.last_action = [text |-> "missed",
                                         player |-> shooter.player_id,
                                         points |-> pts]]

\* lines 334-340: score and last_action
AfterShot(gs, shooter, made) ==
    LET pts == IF IsThreePointer(shooter) THEN 3 ELSE 2
    IN  IF made
        THEN [gs EXCEPT !.score_home = @ + pts,
                        !.last_action = [text |-> "made",
                                         player |-> shooter.player_id,
                                         points |-> pts]]
        ELSE [gs EXCEPT !.last_action = [text |-> "missed",
                                         player |-> shooter.player_id,
                                         points |-> pts]]

NoShot(gs) ==
    [gs EXCEPT !.last_action = [text |-> "Players moving...",
                                player |-> "", points |-> 0]]

\* line 316: shooting_chance > 0.7
ShotAttempted(rnd) == rnd.chance > ShotThreshold

\* lines 301-384: the update computed from the stored snapshot and the
\* random draws rnd; ok is FALSE when the movement loop raises
SimulateTick(current, rnd) ==
    LET gs0 == [current.game_state EXCEPT
                   !.shot_clock = ClockStep(@, ShotClockStep),
                   !.game_clock = ClockStep(@, GameClockStep)]
        cleared == ClearFlags(current.player_positions)
        shoots == ShotAttempted(rnd)
        shooter == cleared[rnd.shooter]
        made == ShotMade(shooter, rnd.sample)
        gs1 == IF shoots THEN AfterShot(gs0, shooter, made) ELSE NoShot(gs0)
        flagged == IF shoots THEN SetShooter(cleared, rnd.shooter, made)
                   ELSE cleared
        movedPlayers == MoveLoop(flagged, 1, Unbound, rnd.moves)
    IN  [ok |-> ~movedPlayers.raised,
         update |-> [game_state |-> gs1,
                     player_positions |-> movedPlayers.players]]

-----------------------------------------------------------------------------
(* Random draws of one tick, from small sets *)

\* random.random() for shooting_chance (line 315)
ChanceSamples == {500, 700, 900}

\* random.random() for the shot (line 328)
ShotSamples == {100, 600, 950}

\* lines 352-353, 356-358, 361-362 and 371: a target in the role's zone and
\* a speed in [0.5, 2.0]
MoveDraws(role) ==
    CASE role = "PG" -> { [target |-> <<Ft(0 - 10), Ft(25)>>, speed |-> 8],
                          [target |-> <<Ft(0), Ft(30)>>, speed |-> 2] }
      [] role = "SG" -> { [target |-> <<Ft(0 - 22), Ft(15)>>, speed |-> 8],
                          [target |-> <<Ft(22), Ft(15)>>, speed |-> 8],
                          [target |-> <<Ft(0), Ft(37)>>, speed |-> 2] }
      [] role = "C"  -> { [target |-> <<Ft(8), Ft(5)>>, speed |-> 8],
                          [target |-> <<Ft(0), Ft(10)>>, speed |-> 2] }
      [] OTHER -> { [target |-> Unbound, speed |-> 8] }

\* no draw is made for the shooter, whom the movement loop skips
NoDraw == [target |-> Unbound, speed |-> 0]

\* the draws of the movement loop for players i.. when player s shoots
\* (s = 0: nobody shoots)
RECURSIVE MoveDrawSeqs(_, _, _)
MoveDrawSeqs(players, i, s) ==
    IF i > Len(players) THEN { << >> }
    ELSE { <<d>> \o rest :
             d \in IF i = s THEN {NoDraw} ELSE MoveDraws(players[i].role),
             rest \in MoveDrawSeqs(players, i + 1, s) }

\* the draws a tick on `current` can make; without a shot attempt neither
\* the shooter nor the shot sample is drawn
RandomDraws(current) ==
    LET players == current.player_positions
    IN  UNION { { [chance |-> c, shooter |-> s, sample |-> r, moves |-> m] :
                    r \in ShotSamples, m \in MoveDrawSeqs(players, 1, s) } :
                c \in { c \in ChanceSamples : c > ShotThreshold },
                s \in DOMAIN players }
        \cup
        { [chance |-> c, shooter |-> 0, sample |-> 0, moves |-> m] :
            c \in { c \in ChanceSamples : c <= ShotThreshold },
            m \in MoveDrawSeqs(players, 1, 0) }

-----------------------------------------------------------------------------
(* The session store at start-up *)

\* the k-th tick of an earlier run: the shooting guard heads for the left
\* corner of the arc, on the 6th and 9th tick for its top; the others stay
\* where they are; nobody shoots, or (scoring) the center shoots and scores
EarlierDraws(k, scoring) ==
    LET corner == [target |-> <<Ft(0 - 22), Ft(15)>>, speed |-> 8]
        top == [target |-> <<Ft(0), Ft(37)>>, speed |-> 2]
        moves == << [target |-> <<Ft(0), Ft(30)>>, speed |-> 2],
                    IF k \in {6, 9} THEN top ELSE corner,
                    [target |-> <<Ft(0), Ft(10)>>, speed |-> 2] >>
    IN  IF scoring
        THEN [chance |-> 900, shooter |-> 3, sample |-> 100,
              moves |-> [moves EXCEPT ![3] = NoDraw]]
        ELSE [chance |-> 500, shooter |-> 0, sample |-> 0, moves |-> moves]

\* the snapshot the ticks from + 1 .. to of an earlier run make of a snapshot
RECURSIVE Replay(_, _, _, _)
Replay(snapshot, from, to, scoring) ==
    IF to <= from THEN snapshot
    ELSE SimulateTick(Replay(snapshot, from, to - 1, scoring),
                      EarlierDraws(to, scoring)).update

\* numbers of ticks an earlier run made after its seed: none, nine (the
\* shooting guard stands 0.25 ft from the corner target), ten (the shot
\* clock is within rounding of 0 and the next tick floors it)
EarlierTicks == {0, 9, 10}

Quiet10 == Replay(TestData("g0"), 0, 10, FALSE)

Quiet20 == Replay(Quiet10, 10, 20, FALSE)

\* thirty ticks after the seed: the game clock has run out
Quiet30 == Replay(Quiet20, 20, 30, FALSE)

EarlierSnapshots ==
    { Replay(TestData("g0"), 0, n, scoring) :
        n \in EarlierTicks, scoring \in BOOLEAN }
    \cup {Quiet30}

ForGame(snapshot, game_id) == [snapshot EXCEPT !.game_state.game_id = game_id]

Empty == [k \in {} |-> 0]

\* redis keeps its keys across restarts of the server: at start-up a key
\* is absent or holds what the seed and the ticks of an earlier run stored
StoreAtStart ==
    { Empty } \cup
    { [g \in {game_id} |-> ForGame(snapshot, game_id)] :
        game_id \in GameIds, snapshot \in EarlierSnapshots }

\* a snapshot of another writer to the store: the seeded players with any
\* combination of shooting flags
ForeignSnapshots ==
    { [TestData("g0") EXCEPT !.player_positions =
          [i \in DOMAIN @ |-> [@[i] EXCEPT !.is_shooting = flags[i][1],
                                            !.shot_made = flags[i][2]]]] :
      flags \in [1..3 -> BOOLEAN \X BOOLEAN] }

-----------------------------------------------------------------------------
(* The handlers of the test endpoints, each run as a whole *)

Response(op, status, detail) == [op |-> op, status |-> status, detail |-> detail]

\* a set that keeps the value of a key that is there
PutIfAbsent(kv, key, value) ==
    [k \in DOMAIN kv \cup {key} |-> IF k \in DOMAIN kv THEN kv[k] ELSE value]

\* redis_client.set(key, json.dumps(value))
Put(kv, key, value) ==
    [k \in DOMAIN kv \cup {key} |-> IF k = key THEN value ELSE kv[k]]

\* lines 230-232, 286-288 and 294-295, 391-393: no redis client
Refused(op) ==
    /\ redis_client = "none"
    /\ lastOp' = Response(op, 500, "503: Redis connection not available")
    /\ lastIn' = << >>
    /\ UNCHANGED <<redis_client, store, published>>

\* lines 227-288
CreateTestData(game_id) ==
    \/ Refused("seed")
    \/ \* redis_client.set raises
       /\ redis_client = "connected"
       /\ lastOp' = Response("seed", 500, "RedisError")
       /\ lastIn' = << >>
       /\ UNCHANGED <<redis_client, store, published>>
    \/ /\ redis_client = "connected"
       /\ store' = Put(store, game_id, TestData(game_id))
       /\ published' = Put(published, game_id, TestData(game_id))
       /\ lastOp' = Response("seed", 200, "Test data created")
       /\ lastIn' = << >>
       /\ UNCHANGED redis_client

\* lines 290-393
SimulateGameUpdate(game_id) ==
    \/ Refused("tick")
    \/ \* get_game_state returns None: no key, or redis_client.get raises
       /\ redis_client = "connected"
       /\ lastOp' = Response("tick", 500, "404: Game not found")
       /\ lastIn' = << >>
       /\ UNCHANGED <<redis_client, store, published>>
    \/ /\ redis_client = "connected"
       /\ game_id \in DOMAIN store
       /\ lastIn' = << store[game_id] >>
       /\ \E rnd \in RandomDraws(store[game_id]) :
             \E tick \in { SimulateTick(store[game_id], rnd) } :
                \/ /\ ~tick.ok
                   /\ lastOp' = Response("tick", 500, "UnboundLocalError")
                   /\ UNCHANGED <<redis_client, store, published>>
                \/ \* redis_client.set raises
                   /\ tick.ok
                   /\ lastOp' = Response("tick", 500, "RedisError")
                   /\ UNCHANGED <<redis_client, store, published>>
                \/ /\ tick.ok
                   /\ store' = Put(store, game_id, tick.update)
                   /\ published' = Put(published, game_id, tick.update)
                   /\ lastOp' = Response("tick", 200, "Game updated")
                   /\ UNCHANGED redis_client

\* nobody is connected
NoHub ==
    /\ active_connections = [k \in {} |-> 0]
    /\ ws = << >>
    /\ pub = << >>

\* no stream loop is running
NoLoop ==
    /\ current_game_data = [k \in {} |-> 0]
    /\ stream = << >>

SimInit ==
    /\ redis_client \in {"connected", "none"}
    /\ store \in StoreAtStart
    /\ published = Empty
    /\ lastOp = Response("none", 0, "")
    /\ lastIn = << >>
    /\ ops = 0
    /\ NoHub
    /\ NoLoop

\* one more handler run, at most max of them
Run(max) == ops < max /\ ops' = ops + 1

Seed ==
    \E g \in GameIds : Run(MaxOps) /\ CreateTestData(g) /\ UNCHANGED <<hubVars, loopVars>>

Tick ==
    \E g \in GameIds : Run(MaxOps) /\ SimulateGameUpdate(g) /\ UNCHANGED <<hubVars, loopVars>>

SimNext == Seed \/ Tick

\* seeds and ticks, one after the other, on the store an earlier run left
Spec == SimInit /\ [][SimNext]_vars

TickInit ==
    /\ redis_client = "connected"
    /\ store \in { [g \in {game_id} |-> ForGame(snapshot, game_id)] :
                     game_id \in GameIds, snapshot \in ForeignSnapshots }
    /\ published = Empty
    /\ lastOp = Response("none", 0, "")
    /\ lastIn = << >>
    /\ ops = 0
    /\ NoHub
    /\ NoLoop

ForeignTick ==
    \E g \in GameIds :
        Run(MaxForeignTicks) /\ SimulateGameUpdate(g) /\ UNCHANGED <<hubVars, loopVars>>

TickNext == ForeignTick

\* ticks on a snapshot that another writer left in the store
SpecTick == TickInit /\ [][TickNext]_vars

\* places on the floor around the three-point line, in quarter feet: for the
\* point guard (0, 25), (0, 29.25), (0, 29.5) and (0, 30), at distances
\* 19.5, 23.75, 24 and 24.5 from the basket reference; for the shooting
\* guard the seeded place, (14.25, 24.5) at distance 23.75 and (14.5, 24.5)
ShotSpots ==
    [PG |-> { <<0, 100>>, <<0, 117>>, <<0, 118>>, <<0, 120>> },
     SG |-> { <<0 - 60, 100>>, <<57, 98>>, <<58, 98>> }]

\* the seeded snapshot after the guards have moved to the given places
Placed(pg, sg) ==
    [TestData("g0") EXCEPT
        !.player_positions[1].x = pg[1], !.player_positions[1].y = pg[2],
        !.player_positions[2].x = sg[1], !.player_positions[2].y = sg[2]]

ShotInit ==
    /\ redis_client = "connected"
    /\ store \in { [g \in {game_id} |-> ForGame(Placed(pg, sg), game_id)] :
                     game_id \in GameIds, pg \in ShotSpots.PG, sg \in ShotSpots.SG }
    /\ published = Empty
    /\ lastOp = Response("none", 0, "")
    /\ lastIn = << >>
    /\ ops = 0
    /\ NoHub
    /\ NoLoop

\* ticks on snapshots whose guards stand around the three-point line
SpecShot == ShotInit /\ [][TickNext]_vars

\* roles other than the three the movement loop knows; "undefined" is what
\* player.get("role", "undefined") gives for a player without a role field
OtherRoles == {"PF", "undefined"}

\* the seeded snapshot with the role of player i replaced
WithRole(i, role) ==
    [TestData("g0") EXCEPT !.player_positions[i].role = role]

RolesInit ==
    /\ redis_client = "connected"
    /\ store \in { [g \in {game_id} |-> ForGame(WithRole(i, role), game_id)] :
                     game_id \in GameIds, i \in 1..3, role \in OtherRoles }
    /\ published = Empty
    /\ lastOp = Response("none", 0, "")
    /\ lastIn = << >>
    /\ ops = 0
    /\ NoHub
    /\ NoLoop

\* ticks on snapshots in which one player has a role of no branch
SpecRoles == RolesInit /\ [][TickNext]_vars

-----------------------------------------------------------------------------
(* The broadcast hub: active_connections, websocket_endpoint, broadcast_update.
   Coroutines interleave at their awaits: a step runs from one await to the
   next. *)

Sockets == 1..MaxSockets

Publishes == 1..MaxPublishes

Range(list) == { list[i] : i \in DOMAIN list }

\* list.append
Append1(list, w) == list \o <<w>>

\* list.remove: the first occurrence; the caller has checked w in list
Remove(list, w) ==
    LET i == CHOOSE k \in DOMAIN list :
                 list[k] = w /\ \A j \in 1..(k - 1) : list[j] # w
    IN  SubSeq(list, 1, i - 1) \o SubSeq(list, i + 1, Len(list))

\* a registry with one list for the websockets of every game id
RegisteredUnderOneKey(conns, game_id, w) ==
    Put(conns, "g1",
        Append1(IF "g1" \in DOMAIN conns THEN conns["g1"] ELSE << >>, w))

\* lines 171-174: register the websocket
Registered(conns, game_id, w) ==
    Put(conns, game_id,
        Append1(IF game_id \in DOMAIN conns THEN conns[game_id] ELSE << >>, w))

\* a finally clause that leaves the registry as it is
StillRegistered(conns, game_id, w) == conns

\* lines 221-224: the finally block of websocket_endpoint
Unregistered(conns, game_id, w) ==
    IF game_id \in DOMAIN conns /\ w \in Range(conns[game_id])
    THEN Put(conns, game_id, Remove(conns[game_id], w))
    ELSE conns

\* the clean-up that removes nothing
CleanUpNothing(list, disconnected) == [raised |-> FALSE, list |-> list]

\* lines 103-106: remove the disconnected websockets, one after the other;
\* list.remove raises ValueError for a websocket that is not in the list
RECURSIVE CleanUp(_, _)
CleanUp(list, disconnected) ==
    IF disconnected = << >> THEN [raised |-> FALSE, list |-> list]
    ELSE IF Head(disconnected) \in Range(list)
         THEN CleanUp(Remove(list, Head(disconnected)), Tail(disconnected))
         ELSE [raised |-> TRUE, list |-> list]

IdlePublish ==
    [pc |-> "idle", game_id |-> "", index |-> 0, websocket |-> 0,
     disconnected |-> << >>,
     \* history: the list when the call began and when it ended, the
     \* websockets sent to, whether another coroutine changed the list
     \* during the call
     began |-> << >>, ended |-> << >>, attempted |-> {}, disturbed |-> FALSE]

\* lines 96-106: the for loop asks its list iterator for the next websocket
\* and awaits send_json on it; when the iterator is exhausted the clean-up
\* loop runs and the call returns or raises
Continue(call, conns) ==
    LET list == conns[call.game_id]
    IN  IF call.index < Len(list)
        THEN [call |-> [call EXCEPT !.pc = "sending",
                                    !.index = @ + 1,
                                    !.websocket = list[call.index + 1],
                                    !.attempted = @ \cup {list[call.index + 1]}],
              conns |-> conns]
        ELSE LET cleaned == CleanUp(list, call.disconnected)
             IN  [call |-> [call EXCEPT
                              !.pc = IF cleaned.raised THEN "raised" ELSE "returned",
                              !.index = 0, !.websocket = 0,
                              !.ended = cleaned.list],
                  conns |-> Put(conns, call.game_id, cleaned.list)]

\* the calls suspended in a send see the list changed by someone else
Disturb(calls, game_id, except) ==
    [q \in DOMAIN calls |->
        IF q # except /\ calls[q].pc = "sending" /\ calls[q].game_id = game_id
        THEN [calls[q] EXCEPT !.disturbed = TRUE]
        ELSE calls[q]]

\* lines 159-174: the connection is accepted, connection_status is sent and
\* the websocket is registered
Connect(w, game_id) ==
    /\ ws[w].pc = "idle"
    /\ \A v \in Sockets : v < w => ws[v].pc # "idle"
    /\ redis_client = "connected"
    /\ ws' = [ws EXCEPT ![w] = [pc |-> "open", game_id |-> game_id, alive |-> TRUE]]
    /\ active_connections' = Registered(active_connections, game_id, w)
    /\ pub' = Disturb(pub, game_id, 0)

\* the client goes away
ClientDrop(w) ==
    /\ ws[w].pc = "open"
    /\ ws[w].alive
    /\ ws' = [ws EXCEPT ![w].alive = FALSE]
    /\ UNCHANGED <<active_connections, pub>>

\* lines 194, 217-224: iter_json ends on the disconnect and the finally
\* block unregisters the websocket
Close(w) ==
    /\ ws[w].pc = "open"
    /\ ~ws[w].alive
    /\ ws' = [ws EXCEPT ![w].pc = "closed"]
    /\ active_connections' = Unregistered(active_connections, ws[w].game_id, w)
    /\ pub' = IF active_connections' # active_connections
              THEN Disturb(pub, ws[w].game_id, 0) ELSE pub

\* lines 92-98: broadcast_update is called and runs to its first await
Begin(game_id, conns) ==
    IF game_id \in DOMAIN conns
    THEN Continue([IdlePublish EXCEPT !.game_id = game_id,
                                      !.began = conns[game_id]],
                  conns)
    ELSE [call |-> [IdlePublish EXCEPT !.pc = "returned", !.game_id = game_id],
          conns |-> conns]

\* send_json on a websocket raises when its connection is gone
SendRaises(sockets, w) == ~sockets[w].alive \/ sockets[w].pc = "closed"

\* lines 98-101: send_json returns or raises, and the loop goes on
Resume(call, conns, sockets) ==
    Continue(IF SendRaises(sockets, call.websocket)
             THEN [call EXCEPT !.disconnected = Append1(@, call.websocket)]
             ELSE call,
             conns)

\* a call whose sends all complete without another coroutine running
RECURSIVE Finish(_, _)
Finish(state, sockets) ==
    IF state.call.pc = "sending"
    THEN Finish(Resume(state.call, state.conns, sockets), sockets)
    ELSE state

\* the publish calls are numbered in the order they are made
NextCall(p) ==
    /\ pub[p].pc = "idle"
    /\ \A q \in Publishes : q < p => pub[q].pc # "idle"

PublishBegin(p, game_id) ==
    /\ NextCall(p)
    /\ LET next == Begin(game_id, active_connections)
       IN  /\ pub' = [pub EXCEPT ![p] = next.call]
           /\ active_connections' = next.conns
    /\ UNCHANGED ws

PublishResume(p) ==
    /\ pub[p].pc = "sending"
    /\ LET next == Resume(pub[p], active_connections, ws)
       IN  /\ active_connections' = next.conns
           /\ pub' = IF next.conns # active_connections
                     THEN [Disturb(pub, pub[p].game_id, p) EXCEPT ![p] = next.call]
                     ELSE [pub EXCEPT ![p] = next.call]
    /\ UNCHANGED ws

\* lines 92-106, no send suspended long enough for another coroutine to run
Publish(p, game_id) ==
    /\ NextCall(p)
    /\ LET end == Finish(Begin(game_id, active_connections), ws)
       IN  /\ pub' = [pub EXCEPT ![p] = end.call]
           /\ active_connections' = end.conns
    /\ UNCHANGED ws

HubInit ==
    /\ redis_client = "connected"
    /\ store = Empty
    /\ published = Empty
    /\ lastOp = Response("none", 0, "")
    /\ lastIn = << >>
    /\ ops = 0
    /\ active_connections = Empty
    /\ ws = [w \in Sockets |-> [pc |-> "idle", game_id |-> "", alive |-> TRUE]]
    /\ pub = [p \in Publishes |-> IdlePublish]
    /\ NoLoop

HubNext ==
    \/ \E w \in Sockets, g \in GameIds : Connect(w, g) /\ UNCHANGED <<simVars, loopVars>>
    \/ \E w \in Sockets : ClientDrop(w) /\ UNCHANGED <<simVars, loopVars>>
    \/ \E w \in Sockets : Close(w) /\ UNCHANGED <<simVars, loopVars>>
    \/ \E p \in Publishes, g \in GameIds : PublishBegin(p, g) /\ UNCHANGED <<simVars, loopVars>>
    \/ \E p \in Publishes : PublishResume(p) /\ UNCHANGED <<simVars, loopVars>>

\* connections and publishes of the broadcast hub, interleaved at the awaits
SpecHub == HubInit /\ [][HubNext]_vars

PublishNext ==
    \/ \E w \in Sockets, g \in GameIds : Connect(w, g) /\ UNCHANGED <<simVars, loopVars>>
    \/ \E w \in Sockets : ClientDrop(w) /\ UNCHANGED <<simVars, loopVars>>
    \/ \E w \in Sockets : Close(w) /\ UNCHANGED <<simVars, loopVars>>
    \/ \E p \in Publishes, g \in GameIds : Publish(p, g) /\ UNCHANGED <<simVars, loopVars>>

\* connections and publishes, each publish run without interruption
SpecPublish == HubInit /\ [][PublishNext]_vars

-----------------------------------------------------------------------------
(* The real-time channel: websocket_endpoint with the messages it sends and
   the frames it receives, next to seeds and ticks.  A seed or tick request
   runs as a whole here, and so does the handling of one frame; a client
   stays connected while a frame of it is handled, so the handler's own
   sends do not raise. *)

\* the connection that is followed; the registry shared by several
\* connections is the subject of the broadcast hub above
Clients == {1}

\* a message the server sends; data is << >> or <<snapshot>>
Msg(type, data) == [type |-> type, data |-> data]

\* lines 399-410: get_game_state returns None (<< >> here) when the key is
\* absent or when redis_client.get raises, else the decoded snapshot
GetGameState(kv, game_id, raises) ==
    IF raises \/ game_id \notin DOMAIN kv THEN << >> ELSE << kv[game_id] >>

\* lines 182-191: initial_state when the state read is truthy, else info
InitialMessage(initial_state) ==
    IF initial_state # << >> THEN Msg("initial_state", initial_state)
    ELSE Msg("info", << >>)

\* the reply that carries no data whatever was read
EmptyUpdate(game_state) == Msg("game_state_update", << >>)

\* lines 199-202: data is game_state or {}
UpdateMessage(game_state) == Msg("game_state_update", game_state)

\* what a client can send: the request for an update, a JSON object with no
\* type field, JSON that is no object, a text frame that is no JSON
Frames == {"request_update", "no_type", "not_object", "not_json"}

NoRead == [value |-> << >>, stored |-> << >>, failed |-> ""]

\* a read of the store by the handler: the value get_game_state returned,
\* and for the record what the store held and which call raised
Read(kv, game_id, failed) ==
    [value |-> GetGameState(kv, game_id, failed # ""),
     stored |-> GetGameState(kv, game_id, FALSE),
     failed |-> failed]

IdleClient ==
    [pc |-> "idle", game_id |-> "", alive |-> TRUE, frames |-> 0,
     \* history: the types of the first three messages sent and of the
     \* last one, the read made for the greeting and the greeting, and of
     \* the frame taken last from the client its number, its kind, the reply
     \* to it and the read made for it
     sent |-> << >>, last |-> "", greeted |-> NoRead,
     greeting |-> Msg("", << >>), handled |-> << >>]

\* the client record after a message of the given type was sent to it
Sent(client, type) ==
    [client EXCEPT !.last = type,
                   !.sent = IF Len(@) < 3 THEN Append1(@, type) ELSE @]

Handled(n, frame, reply, read) ==
    << [n |-> n, frame |-> frame, reply |-> reply, read |-> read] >>

\* lines 152-174: the connection is accepted, connection_status is sent and
\* the websocket is registered; the handler goes on to ping the store
Accept(w, game_id) ==
    /\ ws[w].pc = "idle"
    /\ redis_client = "connected"
    /\ ws' = [ws EXCEPT ![w] = Sent([IdleClient EXCEPT
                                       !.pc = "greeting", !.game_id = game_id],
                                   "connection_status")]
    /\ active_connections' = Registered(active_connections, game_id, w)
    /\ UNCHANGED <<redis_client, store, published, lastOp, lastIn, ops, pub>>

\* lines 153-157: without a redis client the connection is closed before it
\* is accepted; the handler returns through its finally clause
Refuse(w, game_id) ==
    /\ ws[w].pc = "idle"
    /\ redis_client = "none"
    /\ ws' = [ws EXCEPT ![w] = [IdleClient EXCEPT !.pc = "refused",
                                                  !.game_id = game_id]]
    /\ active_connections' = Unregistered(active_connections, game_id, w)
    /\ UNCHANGED <<redis_client, store, published, lastOp, lastIn, ops, pub>>

\* lines 221-224 after the handler's try block is left
Left(sockets, w) == [sockets EXCEPT ![w].pc = "closed"]

\* lines 176-193, 210-215: ping, get_game_state, and the greeting is sent;
\* a ping that raises RedisError is answered with an error message and the
\* handler ends
SendInitialState(w) ==
    /\ ws[w].pc = "greeting"
    /\ \/ /\ ws[w].alive
          /\ \E failed \in {"", "get"} :
                LET read == Read(store, ws[w].game_id, failed)
                    greeting == InitialMessage(read.value)
                IN  ws' = [ws EXCEPT ![w] = Sent([@ EXCEPT !.pc = "open",
                                                           !.greeted = read,
                                                           !.greeting = greeting],
                                                greeting.type)]
          /\ UNCHANGED active_connections
       \/ /\ ws[w].alive
          /\ LET read == [Read(store, ws[w].game_id, "ping")
                            EXCEPT !.value = << >>]
                 error == Msg("error", << >>)
             IN  /\ ws' = Left([ws EXCEPT
                                  ![w] = Sent([@ EXCEPT !.greeted = read,
                                                        !.greeting = error],
                                              error.type)], w)
                 /\ active_connections' =
                        Unregistered(active_connections, ws[w].game_id, w)
       \/ \* the client is gone: send_json raises, for the greeting as for
          \* the error message, and the outer except clause is reached
          /\ ~ws[w].alive
          /\ ws' = Left([ws EXCEPT ![w].greeted =
                            [NoRead EXCEPT !.failed = "send"]], w)
          /\ active_connections' =
                 Unregistered(active_connections, ws[w].game_id, w)
    /\ UNCHANGED <<redis_client, store, published, lastOp, lastIn, ops, pub>>

\* lines 193-208, 217-224: iter_json yields the next frame.  A frame that is
\* no JSON raises out of iter_json, past the inner try, and the handler
\* ends; message.get raises for JSON that is no object and the inner except
\* clause sends an error; an object with no type matches no branch; for
\* request_update the handler reads the store and sends the reply
ReceiveJson(w, frame) ==
    /\ ws[w].pc = "open"
    /\ ws[w].alive
    /\ ws[w].frames < MaxFrames
    /\ LET n == ws[w].frames + 1
           taken == [ws EXCEPT ![w].frames = n]
       IN  CASE frame = "not_json" ->
                  /\ ws' = Left([taken EXCEPT ![w].handled =
                                    Handled(n, frame, "", NoRead)], w)
                  /\ active_connections' =
                         Unregistered(active_connections, ws[w].game_id, w)
             [] frame = "not_object" ->
                  /\ ws' = [taken EXCEPT
                              ![w] = Sent([@ EXCEPT !.handled =
                                              Handled(n, frame, "error", NoRead)],
                                          "error")]
                  /\ UNCHANGED active_connections
             [] frame = "no_type" ->
                  /\ ws' = [taken EXCEPT ![w].handled =
                                Handled(n, frame, "", NoRead)]
                  /\ UNCHANGED active_connections
             [] frame = "request_update" ->
                  /\ \E failed \in {"", "get"} :
                        LET read == Read(store, ws[w].game_id, failed)
                            reply == UpdateMessage(read.value)
                        IN  ws' = [taken EXCEPT
                                     ![w] = Sent([@ EXCEPT !.handled =
                                                Handled(n, frame, reply.type,
                                                        [read EXCEPT
                                                           !.value = reply.data])],
                                            reply.type)]
                  /\ UNCHANGED active_connections
    /\ UNCHANGED <<redis_client, store, published, lastOp, lastIn, ops, pub>>

\* the client goes away with no frame of it unanswered
Hangup(w) ==
    /\ ws[w].pc \in {"greeting", "open"}
    /\ ws[w].alive
    /\ ws' = [ws EXCEPT ![w].alive = FALSE]
    /\ UNCHANGED <<redis_client, store, published, lastOp, lastIn, ops, pub,
                   active_connections>>

\* lines 194, 217-224: iter_json ends on the disconnect
Leave(w) ==
    /\ ws[w].pc = "open"
    /\ ~ws[w].alive
    /\ ws' = Left(ws, w)
    /\ active_connections' = Unregistered(active_connections, ws[w].game_id, w)
    /\ UNCHANGED <<redis_client, store, published, lastOp, lastIn, ops, pub>>

\* lines 92-106, run without interruption: the update is sent to every
\* registered websocket that is connected
Broadcast(game_id, update) ==
    LET end == Finish(Begin(game_id, active_connections), ws)
    IN  /\ active_connections' = end.conns
        /\ ws' = [w \in DOMAIN ws |->
                    IF w \in end.call.attempted /\ ~SendRaises(ws, w)
                    THEN Sent(ws[w], "snapshot")
                    ELSE ws[w]]

\* the draws of the ticks made while clients are connected: nobody shoots
\* and the guards head for their targets
ChannelDraws == { EarlierDraws(1, FALSE) }

\* lines 227-288: a seed request
ChannelSeed(game_id) ==
    /\ ops < MaxCalls
    /\ ops' = ops + 1
    /\ CreateTestData(game_id)
    /\ IF lastOp'.status = 200 THEN Broadcast(game_id, published'[game_id])
       ELSE UNCHANGED <<active_connections, ws>>
    /\ UNCHANGED pub

\* lines 290-393: a tick request
ChannelTick(game_id) ==
    /\ ops < MaxCalls
    /\ ops' = ops + 1
    /\ redis_client = "connected"
    /\ game_id \in DOMAIN store
    /\ \E rnd \in ChannelDraws :
          LET update == SimulateTick(store[game_id], rnd).update
          IN  /\ store' = Put(store, game_id, update)
              /\ published' = Put(published, game_id, update)
              /\ lastIn' = << store[game_id] >>
              /\ lastOp' = Response("tick", 200, "Game updated")
              /\ Broadcast(game_id, update)
    /\ UNCHANGED <<redis_client, pub>>

ChannelInit ==
    /\ redis_client \in {"connected", "none"}
    /\ store \in { Empty, [g \in GameIds |-> TestData(g)] }
    /\ published = Empty
    /\ lastOp = Response("none", 0, "")
    /\ lastIn = << >>
    /\ ops = 0
    /\ active_connections = Empty
    /\ ws = [w \in Clients |-> IdleClient]
    /\ pub = << >>
    /\ NoLoop

ChannelNext ==
    \/ \E w \in Clients, g \in GameIds : Refuse(w, g) /\ UNCHANGED loopVars
    \/ \E w \in Clients, g \in GameIds : Accept(w, g) /\ UNCHANGED loopVars
    \/ \E w \in Clients : SendInitialState(w) /\ UNCHANGED loopVars
    \/ \E w \in Clients, f \in Frames : ReceiveJson(w, f) /\ UNCHANGED loopVars
    \/ \E w \in Clients : Hangup(w) /\ UNCHANGED loopVars
    \/ \E w \in Clients : Leave(w) /\ UNCHANGED loopVars
    \/ \E g \in GameIds : ChannelSeed(g) /\ UNCHANGED loopVars
    \/ \E g \in GameIds : ChannelTick(g) /\ UNCHANGED loopVars

\* clients of the channel, their frames, and seed and tick requests
SpecChannel == ChannelInit /\ [][ChannelNext]_vars

-----------------------------------------------------------------------------
(* Two sessions: seed and tick requests and connections for two game ids,
   every handler interleaved with the others at its awaits. *)

Sessions == {"g1", "g2"}

Subscribers == 1..MaxSubscribers

Requests == 1..MaxRequests

\* a connection that is not made yet; got is the snapshot a publish
\* delivered to it last
IdleSubscriber ==
    [pc |-> "idle", game_id |-> "", alive |-> TRUE, got |-> << >>]

\* a request that is not made yet; read tells what get_game_state returned
\* to it, update is the local dict of the handler, wrote what it has set in
\* the store, sends the frame of its broadcast_update call, delivered the
\* payload each websocket got from it
IdleRequest ==
    [kind |-> "", game_id |-> "", pc |-> "idle", read |-> "", update |-> << >>,
     wrote |-> << >>, sends |-> IdlePublish, delivered |-> Empty]

\* the frame of a broadcast_update call without the history kept for the
\* properties of the hub
Frame(call) ==
    [call EXCEPT !.began = << >>, !.ended = << >>, !.attempted = {}]

\* the requests are numbered in the order they are made
NextRequest(c) ==
    /\ pub[c].pc = "idle"
    /\ \A d \in Requests : d < c => pub[d].pc # "idle"

\* lines 159-174: the connection is accepted, connection_status is sent and
\* the websocket is registered under its game id
Subscribe(w, game_id) ==
    /\ ws[w].pc = "idle"
    /\ \A v \in Subscribers : v < w => ws[v].pc # "idle"
    /\ ws' = [ws EXCEPT ![w] = [IdleSubscriber EXCEPT
                                  !.pc = "open", !.game_id = game_id]]
    /\ active_connections' = Registered(active_connections, game_id, w)
    /\ UNCHANGED <<store, pub>>

\* the client goes away
Disconnect(w) ==
    /\ ws[w].pc = "open"
    /\ ws[w].alive
    /\ ws' = [ws EXCEPT ![w].alive = FALSE]
    /\ UNCHANGED <<store, pub, active_connections>>

\* lines 194, 217-224: iter_json ends on the disconnect and the finally
\* block unregisters the websocket
Unsubscribe(w) ==
    /\ ws[w].pc = "open"
    /\ ~ws[w].alive
    /\ ws' = [ws EXCEPT ![w].pc = "closed"]
    /\ active_connections' = Unregistered(active_connections, ws[w].game_id, w)
    /\ UNCHANGED <<store, pub>>

\* lines 227-281: the seed handler builds test_data and awaits the set
SeedRequest(c, game_id) ==
    /\ NextRequest(c)
    /\ pub' = [pub EXCEPT ![c] = [IdleRequest EXCEPT
                                    !.kind = "seed", !.game_id = game_id,
                                    !.pc = "setting",
                                    !.update = << TestData(game_id) >>]]
    /\ UNCHANGED <<store, ws, active_connections>>

\* a tick that, finding no state, goes on to store the seeded snapshot
SeededInstead(game_id) ==
    [IdleRequest EXCEPT !.kind = "tick", !.game_id = game_id,
                        !.pc = "setting", !.read = "none",
                        !.update = << TestData(game_id) >>]

\* lines 298-299 and 391-393: get_game_state returned None and the handler
\* raises; it returns without a set and without a broadcast
GameNotFound(game_id) ==
    [IdleRequest EXCEPT !.kind = "tick", !.game_id = game_id,
                        !.pc = "rejected", !.read = "none"]

\* lines 290-384: the tick handler reads the state, which is None when the
\* key is absent or the read raises; it answers "Game not found" when there
\* is none, else computes its update from what it read and awaits the set
TickRequest(c, game_id) ==
    /\ NextRequest(c)
    /\ \E rnd \in ChannelDraws, raises \in BOOLEAN :
          LET current == GetGameState(store, game_id, raises)
          IN  pub' = [pub EXCEPT ![c] =
                        IF current = << >>
                        THEN GameNotFound(game_id)
                        ELSE [IdleRequest EXCEPT
                                !.kind = "tick", !.game_id = game_id,
                                !.pc = "setting", !.read = "state",
                                !.update =
                                    << SimulateTick(current[1], rnd).update >>]]
    /\ UNCHANGED <<store, ws, active_connections>>

\* the handler going on to its broadcast whether the set succeeded or not
PublishAnyway(stored) == "publishing"

\* lines 283-288 and 386-393: after the set the handler goes on to its
\* broadcast; when the set raised, the except clause answers 500
AfterSet(stored) == IF stored THEN "publishing" ELSE "failed"

\* lines 283 and 386: redis_client.set stores the update of the handler, or
\* raises and leaves the store as it is
SetState(c) ==
    /\ pub[c].pc = "setting"
    /\ \/ /\ store' = Put(store, pub[c].game_id, pub[c].update[1])
          /\ pub' = [pub EXCEPT ![c].pc = AfterSet(TRUE),
                                ![c].wrote = pub[c].update]
       \/ /\ store' = store
          /\ pub' = [pub EXCEPT ![c].pc = AfterSet(FALSE)]
    /\ UNCHANGED <<ws, active_connections>>

\* lines 284 and 387, 92-98: the handler calls broadcast_update with its
\* update, which runs to its first send
BeginPublish(c) ==
    /\ pub[c].pc = "publishing"
    /\ LET next == Begin(pub[c].game_id, active_connections)
       IN  /\ pub' = [pub EXCEPT ![c].sends = Frame(next.call),
                                  ![c].pc = next.call.pc]
           /\ active_connections' = next.conns
    /\ UNCHANGED <<store, ws>>

\* the payload that is not the argument of the call but what the store holds
\* under the game id when the send is made
SendStored(request, kv) == kv[request.game_id]

\* line 98: send_json(update) serialises the dict the handler passed
SendJson(request, kv) == request.update[1]

\* lines 98-106: the send returns, and the websocket has the payload, or
\* raises; the loop goes on to the next send or to the clean-up
Deliver(c) ==
    /\ pub[c].pc = "sending"
    /\ LET w == pub[c].sends.websocket
           ok == ~SendRaises(ws, w)
           data == SendJson(pub[c], store)
           next == Resume(pub[c].sends, active_connections, ws)
       IN  /\ active_connections' = next.conns
           /\ ws' = IF ok THEN [ws EXCEPT ![w].got = << data >>] ELSE ws
           /\ pub' = [pub EXCEPT
                        ![c].sends = Frame(next.call),
                        ![c].pc = next.call.pc,
                        ![c].delivered = IF ok THEN Put(@, w, data) ELSE @]
    /\ UNCHANGED store

SessionsInit ==
    /\ redis_client = "connected"
    /\ store = Empty
    /\ published = Empty
    /\ lastOp = Response("none", 0, "")
    /\ lastIn = << >>
    /\ ops = 0
    /\ active_connections = Empty
    /\ ws = [w \in Subscribers |-> IdleSubscriber]
    /\ pub = [c \in Requests |-> IdleRequest]
    /\ NoLoop

SessionsNext ==
    \/ \E w \in Subscribers, g \in Sessions :
          Subscribe(w, g) /\ UNCHANGED <<redis_client, published, lastOp, lastIn, ops, loopVars>>
    \/ \E w \in Subscribers : Disconnect(w) /\ UNCHANGED <<redis_client, published, lastOp, lastIn, ops, loopVars>>
    \/ \E w \in Subscribers : Unsubscribe(w) /\ UNCHANGED <<redis_client, published, lastOp, lastIn, ops, loopVars>>
    \/ \E c \in Requests, g \in Sessions :
          SeedRequest(c, g) /\ UNCHANGED <<redis_client, published, lastOp, lastIn, ops, loopVars>>
    \/ \E c \in Requests, g \in Sessions :
          TickRequest(c, g) /\ UNCHANGED <<redis_client, published, lastOp, lastIn, ops, loopVars>>
    \/ \E c \in Requests : SetState(c) /\ UNCHANGED <<redis_client, published, lastOp, lastIn, ops, loopVars>>
    \/ \E c \in Requests : BeginPublish(c) /\ UNCHANGED <<redis_client, published, lastOp, lastIn, ops, loopVars>>
    \/ \E c \in Requests : Deliver(c) /\ UNCHANGED <<redis_client, published, lastOp, lastIn, ops, loopVars>>

\* the handlers of two sessions, interleaved at their awaits
SpecSessions == SessionsInit /\ [][SessionsNext]_vars

\* the first session was seeded before the requests are made
SeededInit ==
    /\ redis_client = "connected"
    /\ store = [g \in {"g1"} |-> TestData(g)]
    /\ published = Empty
    /\ lastOp = Response("none", 0, "")
    /\ lastIn = << >>
    /\ ops = 0
    /\ active_connections = Empty
    /\ ws = [w \in Subscribers |-> IdleSubscriber]
    /\ pub = [c \in Requests |-> IdleRequest]
    /\ NoLoop

\* the interleaved handlers on a session that holds its seeded snapshot
SpecSeeded == SeededInit /\ [][SessionsNext]_vars

-----------------------------------------------------------------------------
(* The aggregator and the stream loop: NBADataPipeline.fetch_game_data,
   fetch_endpoint and StreamProcessor.process_stream *)

\* lines 24-28: the endpoints dict, in insertion order
Endpoints == << "play_by_play", "shot_chart", "player_tracking" >>

\* what one request comes to: status 200 with a JSON body, another status,
\* or an exception of the transport
Outcomes == {"ok", "rejected", "failed"}

None == [kind |-> "None", endpoint |-> "", tick |-> 0]

\* the body the endpoint serves during the given iteration of the loop
Payload(name, tick) == [kind |-> "json", endpoint |-> name, tick |-> tick]

\* lines 41-50: the value fetch_endpoint returns
FetchEndpoint(name, outcome, tick) ==
    IF outcome = "ok" THEN Payload(name, tick) ELSE None

\* the results in the order the tasks completed
ResultsAsCompleted(tasks, finished) ==
    [i \in DOMAIN tasks |-> tasks[finished[i]].result]

\* line 34: asyncio.gather returns the results in the order of the tasks
Gather(tasks, finished) == [i \in DOMAIN tasks |-> tasks[i].result]

\* line 35: dict(zip(endpoints.keys(), results))
Zip(keys, values) ==
    [k \in Range(keys) |->
        values[CHOOSE i \in DOMAIN keys :
                   keys[i] = k /\ \A j \in DOMAIN keys : keys[j] = k => j <= i]]

\* line 113: dict.update
Update(old, new) ==
    [k \in DOMAIN old \cup DOMAIN new |->
        IF k \in DOMAIN new THEN new[k] ELSE old[k]]

\* lines 82-84: the attributes StreamProcessor.__init__ sets
ProcessorAttributes == {"pipeline", "current_game_data"}

NoTasks == << >>

\* lines 104-106: the except clause of the loop; self.logger raises
\* AttributeError when the instance has no such attribute, and the exception
\* leaves process_stream
OnException(st, step) ==
    IF "logger" \in ProcessorAttributes
    THEN [st EXCEPT !.pc = "sleeping", !.delay = 5, !.raised_in = step]
    ELSE [st EXCEPT !.pc = "terminated", !.raised_in = step]

StreamStart ==
    [pc |-> "running", tick |-> 0, delay |-> 0, raised_in |-> "",
     tasks |-> NoTasks, finished |-> << >>,
     new_data |-> Empty,
     \* history: current_game_data before the last merge, the outcome
     \* of each endpoint's request in the last fetch, the number of the last
     \* tick merged and of the last tick emitted, and the await at which
     \* the coroutine was cancelled
     before |-> Empty, outcomes |-> << >>,
     merged |-> 0, emitted |-> 0, cancelled_in |-> ""]

\* lines 90-93, 23-34: the loop calls fetch_game_data, which creates the
\* session and one task per endpoint and awaits them all; or creating the
\* session raises, before any request is made
FetchGameData ==
    /\ stream.pc = "running"
    /\ stream.tick < MaxLoopTicks
    /\ \/ stream' = [stream EXCEPT
                        !.pc = "gathering", !.tick = @ + 1, !.delay = 0,
                        !.tasks = [i \in DOMAIN Endpoints |->
                                     [state |-> "pending", outcome |-> "",
                                      result |-> None]],
                        !.finished = << >>]
       \/ stream' = OnException([stream EXCEPT !.tick = @ + 1, !.delay = 0],
                                "fetch")
    /\ UNCHANGED current_game_data

\* lines 37-50: one task's request ends and fetch_endpoint returns
FetchEndpointDone(i, outcome) ==
    /\ stream.pc = "gathering"
    /\ stream.tasks[i].state = "pending"
    /\ stream' = [stream EXCEPT
                     !.tasks[i] = [state |-> "done", outcome |-> outcome,
                                   result |-> FetchEndpoint(Endpoints[i], outcome,
                                                            stream.tick)],
                     !.finished = Append1(@, i)]
    /\ UNCHANGED current_game_data

\* a wait that is over as soon as one task is done
FirstCompleted(tasks) == \E i \in DOMAIN tasks : tasks[i].state = "done"

\* line 34: asyncio.gather is over when every task is done
AllCompleted(tasks) == \A i \in DOMAIN tasks : tasks[i].state = "done"

\* lines 34-35, 93: every task is done; gather returns and fetch_game_data
\* returns the dict
GatherReturns ==
    /\ stream.pc = "gathering"
    /\ AllCompleted(stream.tasks)
    /\ stream' = [stream EXCEPT
                     !.pc = "merging",
                     !.new_data = Zip(Endpoints,
                                      Gather(stream.tasks, stream.finished)),
                     !.outcomes = [i \in DOMAIN stream.tasks |->
                                     stream.tasks[i].outcome],
                     !.tasks = NoTasks, !.finished = << >>]
    /\ UNCHANGED current_game_data

\* lines 96, 108-116: _update_game_state
UpdateGameState ==
    /\ stream.pc = "merging"
    /\ current_game_data' = Update(current_game_data, stream.new_data)
    /\ stream' = [stream EXCEPT !.pc = "emitting",
                                 !.before = current_game_data,
                                 !.merged = stream.tick]

\* lines 99-102: _emit_updates, then asyncio.sleep(1)
EmitUpdates ==
    /\ stream.pc = "emitting"
    /\ stream' = [stream EXCEPT !.pc = "sleeping", !.delay = 1,
                                 !.emitted = stream.tick]
    /\ UNCHANGED current_game_data

\* lines 102, 106: the sleep is over and the loop goes round
SleepOver ==
    /\ stream.pc = "sleeping"
    /\ stream' = [stream EXCEPT !.pc = "running", !.delay = 0]
    /\ UNCHANGED current_game_data

\* the awaits of process_stream at which the coroutine can be suspended:
\* line 93 (the gather inside fetch_game_data) and lines 102, 106 (sleep);
\* _emit_updates has no await of its own
Awaits == {"gathering", "sleeping"}

\* the task running process_stream is cancelled: CancelledError is raised at
\* the await the coroutine is suspended in; it is not an Exception, so
\* neither fetch_endpoint's nor the loop's except clause catches it, the
\* pending requests are cancelled with the gather and the coroutine ends
Cancel ==
    /\ stream.pc \in Awaits
    /\ stream' = [stream EXCEPT !.pc = "stopped", !.delay = 0,
                                 !.cancelled_in = stream.pc,
                                 !.tasks = NoTasks, !.finished = << >>]
    /\ UNCHANGED current_game_data

LoopInit ==
    /\ redis_client = "connected"
    /\ store = Empty
    /\ published = Empty
    /\ lastOp = Response("none", 0, "")
    /\ lastIn = << >>
    /\ ops = 0
    /\ NoHub
    /\ current_game_data = Empty
    /\ stream = StreamStart

LoopNext ==
    \/ FetchGameData /\ UNCHANGED <<simVars, hubVars>>
    \/ \E i \in DOMAIN Endpoints, o \in Outcomes :
          FetchEndpointDone(i, o) /\ UNCHANGED <<simVars, hubVars>>
    \/ GatherReturns /\ UNCHANGED <<simVars, hubVars>>
    \/ UpdateGameState /\ UNCHANGED <<simVars, hubVars>>
    \/ EmitUpdates /\ UNCHANGED <<simVars, hubVars>>
    \/ SleepOver /\ UNCHANGED <<simVars, hubVars>>
    \/ Cancel /\ UNCHANGED <<simVars, hubVars>>

\* the stream loop of one game
SpecLoop == LoopInit /\ [][LoopNext]_vars

-----------------------------------------------------------------------------
(* Properties of the simulation *)

\* the snapshots held by the store or handed to broadcast_update
Snapshots ==
    { store[g] : g \in DOMAIN store } \cup { published[g] : g \in DOMAIN published }

Players(snapshot) ==
    { snapshot.player_positions[i] : i \in DOMAIN snapshot.player_positions }

InBounds(p) ==
    /\ 0 - XBound <= p.x /\ p.x <= XBound
    /\ YMin <= p.y /\ p.y <= YMax

TickDone == lastOp.op = "tick" /\ lastOp.status = 200

\* C1: in every snapshot persisted or published by seeds and ticks, every
\* player, the tick's shooter included, has -23 <= x <= 23 and 2 <= y <= 45
C1_PlayersInBounds ==
    \A snapshot \in Snapshots : \A p \in Players(snapshot) : InBounds(p)

\* a tick in which one player shot and another was stopped at x = -23
C1_Witness ==
    /\ TickDone
    /\ \E g \in DOMAIN store :
          LET before == lastIn[1].player_positions
              after == store[g].player_positions
          IN  \E i, j \in DOMAIN after :
                 /\ after[i].is_shooting
                 /\ after[j].x = 0 - XBound
                 /\ before[j].x > 0 - XBound
                 /\ published[g] = store[g]

\* C2: over ticks with no seed in between, the stored and published
\* shotClock and gameClock never increase and are never negative
C2_ClocksNeverIncrease ==
    [][ lastOp'.op = "tick" =>
          /\ \A g \in DOMAIN store' :
                /\ 0 <= store'[g].game_state.shot_clock
                /\ 0 <= store'[g].game_state.game_clock
                /\ g \in DOMAIN store =>
                      /\ store'[g].game_state.shot_clock
                            <= store[g].game_state.shot_clock
                      /\ store'[g].game_state.game_clock
                            <= store[g].game_state.game_clock
          /\ \A g \in DOMAIN published' :
                /\ 0 <= published'[g].game_state.shot_clock
                /\ 0 <= published'[g].game_state.game_clock
                /\ g \in DOMAIN published =>
                      /\ published'[g].game_state.shot_clock
                            <= published[g].game_state.shot_clock
                      /\ published'[g].game_state.game_clock
                            <= published[g].game_state.game_clock ]_vars

\* a tick on a snapshot whose clocks had both run out
C2_Witness ==
    /\ TickDone
    /\ lastIn[1].game_state.shot_clock = 0
    /\ lastIn[1].game_state.game_clock = 0
    /\ \E g \in DOMAIN published :
          /\ published[g].game_state.shot_clock = 0
          /\ published[g].game_state.game_clock = 0
          /\ store[g] = published[g]

Shooters(snapshot) ==
    { i \in DOMAIN snapshot.player_positions :
        snapshot.player_positions[i].is_shooting }

\* C3: in the output of every tick at most one player has isShooting = true,
\* whatever flags the input snapshot carried
C3_AtMostOneShooter ==
    TickDone => \A snapshot \in Snapshots : Cardinality(Shooters(snapshot)) <= 1

\* a tick with a shot attempt on a snapshot in which all players were flagged
C3_Witness ==
    /\ TickDone
    /\ Cardinality(Shooters(lastIn[1])) = 3
    /\ \E g \in DOMAIN store : Cardinality(Shooters(store[g])) = 1

\* C4: for every player of every persisted or published snapshot,
\* isShooting = false implies shotMade = false
C4_MadeOnlyWhenShooting ==
    \A snapshot \in Snapshots : \A p \in Players(snapshot) :
        ~p.is_shooting => ~p.shot_made

\* a tick after which the scorer of the snapshot before is no shooter
C4_Witness ==
    /\ TickDone
    /\ \E g \in DOMAIN store : \E i \in DOMAIN store[g].player_positions :
          /\ lastIn[1].player_positions[i].shot_made
          /\ ~store[g].player_positions[i].is_shooting
          /\ ~store[g].player_positions[i].shot_made

\* the shooter of the last tick, if its shot was made
Scorers(snapshot) ==
    { i \in DOMAIN snapshot.player_positions :
        /\ snapshot.player_positions[i].is_shooting
        /\ snapshot.player_positions[i].shot_made }

\* C16: a made shot adds 3 to scoreHome when the shooter stands farther than
\* 23.75 from (0, 5.5) and 2 otherwise, 23.75 itself included; a make from
\* (0, 25) adds 2 and a make from (0, 30) adds 3
C16_MadeShotScores ==
    TickDone =>
        \A g \in DOMAIN store : \A i \in Scorers(store[g]) :
            LET shooter == lastIn[1].player_positions[i]
                added == store[g].game_state.score_home
                            - lastIn[1].game_state.score_home
                far == shooter.x * shooter.x + (shooter.y - 22) * (shooter.y - 22)
                          > 95 * 95
            IN  /\ added = IF far THEN 3 ELSE 2
                /\ shooter.x = 0 /\ shooter.y = Ft(25) => added = 2
                /\ shooter.x = 0 /\ shooter.y = Ft(30) => added = 3

\* a shot made from exactly 23.75 off the basket reference, off the axis
C16_Witness ==
    /\ TickDone
    /\ \E g \in DOMAIN store : \E i \in Scorers(store[g]) :
          /\ lastIn[1].player_positions[i].x = 57
          /\ lastIn[1].player_positions[i].y = 98
          /\ store[g].game_state.score_home = lastIn[1].game_state.score_home + 2
          /\ store[g].game_state.last_action.points = 2

\* C17: a tick on the seeded snapshot gives shotClock 21.6 and gameClock
\* 696.0 and leaves scoreHome as it was; every tick lowers the shotClock by
\* 2.4 and the gameClock by 24.0, floored at 0: a clock that read t / 10
\* reads (t - 24) / 10, resp. (t - 240) / 10, after the tick
C17_ClocksStepExactly ==
    TickDone =>
        \A g \in DOMAIN store :
            LET before == lastIn[1].game_state
                after == store[g].game_state
            IN  /\ /\ before.shot_clock = Double(240)
                   /\ before.game_clock = Double(7200)
                   /\ before.score_home = 0
                   => /\ after.shot_clock = Double(216)
                      /\ after.game_clock = Double(6960)
                      /\ after.score_home = 0
                /\ before.shot_clock = Double(Tenths(before.shot_clock))
                   => after.shot_clock
                         = Max(0, Double(Tenths(before.shot_clock) - 24))
                /\ before.game_clock = Double(Tenths(before.game_clock))
                   => after.game_clock
                         = Max(0, Double(Tenths(before.game_clock) - 240))

\* who the player is: the fields of a player no tick is to change
Identity(p) == [player_id |-> p.player_id, role |-> p.role, team_id |-> p.team_id]

\* C23: the output of a tick has as many players as its input, with the same
\* playerID, role and teamID at each index
C23_PlayerSequencePreserved ==
    TickDone =>
        \A snapshot \in Snapshots :
            LET before == lastIn[1].player_positions
                after == snapshot.player_positions
            IN  /\ Len(after) = Len(before)
                /\ \A i \in DOMAIN before :
                      Identity(after[i]) = Identity(before[i])

\* a tick in which the second player shot and the two others moved
C23_Witness ==
    /\ TickDone
    /\ \E g \in DOMAIN store :
          LET before == lastIn[1].player_positions
              after == store[g].player_positions
          IN  /\ Len(after) = 3
              /\ after[2].is_shooting
              /\ after[1].x # before[1].x
              /\ after[3].x # before[3].x
              /\ published[g] = store[g]

\* the shot attempt of the tick that wrote the snapshot, as its last_action
\* tells it: the shooter's id, or "" when no shot was attempted
Attempt(snapshot) == snapshot.game_state.last_action

\* C24: the shooting flags a tick finds on the players are cleared before it
\* selects a shot, so the flags of its output come from its own shot attempt
\* only: a player is flagged exactly when this tick had it shoot, and a
\* player flagged by the tick before is not flagged any more unless it
\* shoots again
C24_ShotFlagsTransient ==
    TickDone =>
        \A snapshot \in Snapshots :
            \A p \in Players(snapshot) :
                /\ p.is_shooting =>
                      /\ Attempt(snapshot).text \in {"made", "missed"}
                      /\ Attempt(snapshot).player = p.player_id
                /\ p.shot_made => p.is_shooting
                /\ Attempt(snapshot).player # p.player_id =>
                      ~p.is_shooting /\ ~p.shot_made

\* the tick before flagged one player for a made shot; this tick had another
\* player shoot and miss, and the first is flagged no more
C24_Witness ==
    /\ TickDone
    /\ \E g \in DOMAIN store :
          \E i, j \in DOMAIN store[g].player_positions :
              /\ i # j
              /\ lastIn[1].player_positions[i].is_shooting
              /\ lastIn[1].player_positions[i].shot_made
              /\ ~store[g].player_positions[i].is_shooting
              /\ ~store[g].player_positions[i].shot_made
              /\ store[g].player_positions[j].is_shooting
              /\ ~store[g].player_positions[j].shot_made
              /\ published[g] = store[g]

\* the ids of the players of a snapshot that are shooting, with a shot made
\* or missed
ShootingIds(snapshot, made) ==
    { p.player_id : p \in { q \in Players(snapshot) :
                              q.is_shooting /\ q.shot_made = made } }

\* C27: after every tick last_action says made and names the shooter exactly
\* when a player is shooting with its shot made, says missed and names the
\* shooter exactly when a player is shooting with its shot missed, and is
\* "Players moving..." exactly when nobody is shooting; scoreHome has
\* changed in the tick exactly when last_action says made
C27_LastActionAgrees ==
    TickDone =>
        \A snapshot \in Snapshots :
            LET action == snapshot.game_state.last_action
            IN  /\ action.text \in {"made", "missed", "Players moving..."}
                /\ action.text = "made"
                      <=> ShootingIds(snapshot, TRUE) # {}
                /\ action.text = "missed"
                      <=> ShootingIds(snapshot, FALSE) # {}
                /\ action.text = "Players moving..."
                      <=> Shooters(snapshot) = {}
                /\ action.text = "made"
                      => ShootingIds(snapshot, TRUE) = {action.player}
                /\ action.text = "missed"
                      => ShootingIds(snapshot, FALSE) = {action.player}
                /\ action.text = "made"
                      <=> snapshot.game_state.score_home
                             # lastIn[1].game_state.score_home

\* a tick whose shooter missed a three-point shot after a tick that scored
C27_Witness ==
    /\ TickDone
    /\ lastIn[1].game_state.last_action.text = "made"
    /\ \E g \in DOMAIN store :
          /\ store[g].game_state.last_action.text = "missed"
          /\ store[g].game_state.last_action.points = 3
          /\ store[g].game_state.score_home = lastIn[1].game_state.score_home
          /\ Cardinality(ShootingIds(store[g], FALSE)) = 1
          /\ published[g] = store[g]

\* the tick that ran last failed on the store after it had read a snapshot
StoreFailedInTick ==
    /\ lastOp.op = "tick"
    /\ lastOp.detail = "RedisError"
    /\ lastIn # << >>

\* C22: when the store is unavailable during a tick the snapshot the tick
\* had before is still published to the subscribers: it is what the session
\* published last
C22_StaleSnapshotPublished ==
    StoreFailedInTick =>
        \A g \in GameIds :
            g \in DOMAIN store =>
                /\ g \in DOMAIN published
                /\ published[g] = lastIn[1]

-----------------------------------------------------------------------------
(* Properties of the broadcast hub *)

Finished(p) == pub[p].pc \in {"returned", "raised"}

\* list with the websockets of gone taken out
Without(list, gone) == SelectSeq(list, LAMBDA w : w \notin gone)

C6_PublishNeverRaises == \A p \in Publishes : pub[p].pc # "raised"

\* C7: a publish attempts a send to every websocket that is registered when
\* it starts and still registered when it ends
C7_EverySubscriberAttempted ==
    \A p \in Publishes :
        Finished(p) =>
            \A w \in Range(pub[p].began) \cap Range(pub[p].ended) :
                w \in pub[p].attempted

\* the websockets in the registry of a game id, in list order
Registry(game_id) ==
    IF game_id \in DOMAIN active_connections
    THEN active_connections[game_id] ELSE << >>

\* the websockets a publish that has ended found disconnected: its evictions
Evicted(game_id) ==
    UNION { Range(pub[p].disconnected) :
              p \in { q \in Publishes :
                        Finished(q) /\ pub[q].game_id = game_id } }

\* the websockets of a game id whose handler has registered and not ended
Subscribed(game_id) ==
    { w \in Sockets : ws[w].pc = "open" /\ ws[w].game_id = game_id }

\* C21: under any interleaving of connects, disconnects and evictions the
\* registry of a session holds exactly the websockets that were registered
\* and neither unregistered by their handler nor evicted by a publish, each
\* once
C21_NoRegistryUpdateLost ==
    \A g \in GameIds :
        /\ Range(Registry(g)) = Subscribed(g) \ Evicted(g)
        /\ Cardinality(Range(Registry(g))) = Len(Registry(g))

-----------------------------------------------------------------------------
(* Properties of the real-time channel *)

InRegistry(w) ==
    /\ ws[w].game_id \in DOMAIN active_connections
    /\ w \in Range(active_connections[ws[w].game_id])

\* the handler has sent its greeting, or ended without one, to a client
\* that was there to receive it
GreetingOver(w) ==
    /\ ws[w].pc \in {"open", "closed"}
    /\ ws[w].greeted.failed # "send"

\* the client is connected and has sent no frame yet
Fresh(w) == ws[w].alive /\ ws[w].frames = 0

\* C12: on every accepted connection the first message sent is the one
\* connection_status message, the second is initial_state or info, and
\* snapshots are pushed only after these two
C12_GreetingBeforeSnapshots ==
    \A w \in Clients : \A i \in DOMAIN ws[w].sent :
        /\ (i = 1) <=> (ws[w].sent[i] = "connection_status")
        /\ i = 2 => ws[w].sent[i] \in {"initial_state", "info"}
        /\ ws[w].sent[i] = "snapshot" => i > 2

\* C13: the greeting is initial_state with the stored snapshot exactly when
\* the store holds a snapshot of the session; when it holds none the
\* greeting is info, no error is sent and the handler goes on, registered
C13_InitialStateIffStored ==
    \A w \in Clients : GreetingOver(w) =>
        LET stored == ws[w].greeted.stored
        IN  /\ stored # << >> => ws[w].greeting = Msg("initial_state", stored)
            /\ stored = << >> =>
                  /\ ws[w].greeting = Msg("info", << >>)
                  /\ Fresh(w) => /\ "error" \notin Range(ws[w].sent)
                                 /\ ws[w].pc = "open"
                                 /\ InRegistry(w)

\* what the handler does at subscribe time: the greeting follows the store
\* when the store answers the ping and the read.  When the read raises the
\* greeting is info whatever the store holds; when the ping raises an error
\* message is sent and the handler ends, unregistered
GreetingFollowsRead ==
    \A w \in Clients : GreetingOver(w) =>
        LET stored == ws[w].greeted.stored
            failed == ws[w].greeted.failed
        IN  /\ failed = "" /\ stored # << >> =>
                  ws[w].greeting = Msg("initial_state", stored)
            /\ failed = "get" \/ (failed = "" /\ stored = << >>) =>
                  ws[w].greeting = Msg("info", << >>)
            /\ failed # "ping" /\ Fresh(w) =>
                  /\ "error" \notin Range(ws[w].sent)
                  /\ ws[w].pc = "open"
                  /\ InRegistry(w)
            /\ failed = "ping" =>
                  /\ ws[w].greeting = Msg("error", << >>)
                  /\ ws[w].pc = "closed"
                  /\ ~InRegistry(w)

Malformed == {"no_type", "not_object", "not_json"}

\* C14: a malformed frame is answered with an error message, the connection
\* stays open and the websocket stays registered
C14_MalformedAnswered ==
    \A w \in Clients : \A i \in DOMAIN ws[w].handled :
        ws[w].handled[i].frame \in Malformed =>
            /\ ws[w].handled[i].reply = "error"
            /\ ws[w].alive => ws[w].pc # "closed" /\ InRegistry(w)

\* the step of the handler on a request_update frame of client w
OnRequest(w) ==
    /\ ws'[w].frames = ws[w].frames + 1
    /\ ws'[w].handled[1].frame = "request_update"

HandlerReturned(w) == ws[w].pc \in {"closed", "refused"}

\* C30: once the handler of a connection has returned, on whatever path, its
\* websocket is in no list of the registry; a connection refused for want
\* of a redis client is never registered
C30_NoHandleOutlivesHandler ==
    \A w \in Clients :
        HandlerReturned(w) \/ ws[w].pc = "idle" =>
            \A g \in DOMAIN active_connections :
                w \notin Range(active_connections[g])

\* the handler has ended on a store error after it had registered the
\* websocket, and the list of the game is still there without it
C30_Witness ==
    \E w \in Clients :
        /\ ws[w].pc = "closed"
        /\ ws[w].greeted.failed = "ping"
        /\ ws[w].sent = << "connection_status", "error" >>
        /\ ws[w].game_id \in DOMAIN active_connections
        /\ ~InRegistry(w)

-----------------------------------------------------------------------------
(* Properties of the sessions *)

\* the payloads the publish of request c has delivered
Payloads(c) == { pub[c].delivered[w] : w \in DOMAIN pub[c].delivered }

\* C18: within one publish every websocket whose send succeeds receives the
\* same complete snapshot, the update of the handler that publishes, with
\* its game_state and its player_positions, whatever seed or tick of the
\* session runs concurrently
C18_OneSnapshotPerPublish ==
    \A c \in Requests :
        \A data \in Payloads(c) :
            /\ Payloads(c) = {data}
            /\ DOMAIN data = {"game_state", "player_positions"}
            /\ data = pub[c].update[1]

\* a publish has delivered to two websockets of a session while another
\* request of the session, still publishing, has replaced the stored snapshot
C18_Witness ==
    \E c, d \in Requests :
        /\ c # d
        /\ pub[c].game_id = pub[d].game_id
        /\ pub[c].pc = "returned"
        /\ Cardinality(DOMAIN pub[c].delivered) = 2
        /\ pub[d].pc = "sending"
        /\ store[pub[d].game_id] = pub[d].update[1]
        /\ pub[d].update # pub[c].update

\* the request has called broadcast_update
Published(c) == pub[c].pc \in {"sending", "returned", "raised"}

\* C25: a seed or a tick publishes only after it has written its snapshot
\* to the store, what it publishes is the snapshot it wrote, and a request
\* whose write failed publishes nothing
C25_WrittenBeforePublished ==
    \A c \in Requests :
        /\ Published(c) \/ Payloads(c) # {} =>
              /\ pub[c].wrote # << >>
              /\ pub[c].wrote = pub[c].update
              /\ Payloads(c) \subseteq {pub[c].wrote[1]}
        /\ pub[c].wrote = << >> =>
              pub[c].sends = IdlePublish /\ Payloads(c) = {}

\* a seed has written and delivered its snapshot while the set of another
\* seed of the session has failed, which delivered nothing
C25_Witness ==
    \E c, d \in Requests :
        /\ pub[c].game_id = pub[d].game_id
        /\ pub[c].kind = "seed" /\ pub[c].pc = "failed"
        /\ pub[d].kind = "seed" /\ pub[d].pc = "returned"
        /\ Payloads(d) = {pub[d].wrote[1]}
        /\ store[pub[d].game_id] = pub[d].wrote[1]

\* the ticks of session g that have written their update
TicksWritten(g) ==
    { c \in Requests :
        pub[c].kind = "tick" /\ pub[c].game_id = g /\ pub[c].wrote # << >> }

\* every request made has run to its end
AllReturned ==
    \A c \in Requests :
        pub[c].pc \in {"idle", "rejected", "failed", "returned", "raised"}

\* a clock after k ticks run one after the other
RECURSIVE ClockAfter(_, _, _)
ClockAfter(clock, step, k) ==
    IF k = 0 THEN clock ELSE ClockAfter(ClockStep(clock, step), step, k - 1)

\* the points the ticks of session g have scored
RECURSIVE PointsOf(_)
PointsOf(ticks) ==
    IF ticks = {} THEN 0
    ELSE LET c == CHOOSE d \in ticks : TRUE
             action == pub[c].wrote[1].game_state.last_action
         IN  (IF action.text = "made" THEN action.points ELSE 0)
                + PointsOf(ticks \ {c})

\* C28: concurrent ticks of a session behave as if run one after the other:
\* when k ticks of a seeded session have completed, and no seed since, the
\* stored clocks are the seeded ones stepped k times and the stored score
\* has the points of every tick
C28_TicksAsIfSerialized ==
    \A g \in DOMAIN store :
        /\ AllReturned
        /\ \A c \in Requests : pub[c].game_id = g => pub[c].kind # "seed"
        => LET k == Cardinality(TicksWritten(g))
               stored == store[g].game_state
           IN  /\ stored.shot_clock
                     = ClockAfter(ShotClockStart, ShotClockStep, k)
               /\ stored.game_clock
                     = ClockAfter(GameClockStart, GameClockStep, k)
               /\ stored.score_home = PointsOf(TicksWritten(g))

\* a step of a handler that serves session a: a connection to it, a
\* disconnect from it, a seed or a tick of it, a send of its publish
StepFor(a) ==
    \/ \E w \in Subscribers : Subscribe(w, a)
    \/ \E w \in Subscribers :
          ws[w].game_id = a /\ (Disconnect(w) \/ Unsubscribe(w))
    \/ \E c \in Requests : SeedRequest(c, a) \/ TickRequest(c, a)
    \/ \E c \in Requests :
          pub[c].game_id = a /\ (SetState(c) \/ BeginPublish(c) \/ Deliver(c))

\* the websockets registered for session b
SubscriberSet(conns, b) == IF b \in DOMAIN conns THEN Range(conns[b]) ELSE {}

\* what the websockets connected to session b have received from publishes
Inbox(requests, sockets, b) ==
    UNION { { <<w, c, requests[c].delivered[w]>> :
                c \in { d \in DOMAIN requests :
                           w \in DOMAIN requests[d].delivered } } :
            w \in { v \in DOMAIN sockets : sockets[v].game_id = b } }

\* C20: a step for session a delivers nothing to a websocket connected to
\* another session b and leaves the stored snapshot and the subscriber set
\* of b as they are
C20_SessionsIndependent ==
    [][ \A a, b \in Sessions :
          a # b /\ StepFor(a) =>
              /\ GetGameState(store', b, FALSE) = GetGameState(store, b, FALSE)
              /\ SubscriberSet(active_connections', b)
                    = SubscriberSet(active_connections, b)
              /\ Inbox(pub', ws', b) = Inbox(pub, ws, b) ]_vars

\* a publish of g1 has delivered to its websocket while g2 has its seeded
\* snapshot and a registered websocket that no publish of g1 has sent to
C20_Witness ==
    \E c \in Requests : \E w, v \in Subscribers :
        /\ pub[c].game_id = "g1"
        /\ w \in DOMAIN pub[c].delivered
        /\ ws[w].game_id = "g1"
        /\ ws[v].game_id = "g2"
        /\ "g2" \in DOMAIN store /\ store["g2"] = TestData("g2")
        /\ v \in SubscriberSet(active_connections, "g2")
        /\ Inbox(pub, ws, "g2") = {}

\* the websockets that are connected and registered for session g
StillSubscribed(g) ==
    { w \in Subscribers :
        /\ ws[w].pc = "open" /\ ws[w].alive /\ ws[w].game_id = g
        /\ w \in SubscriberSet(active_connections, g) }

\* C29: the snapshots of a session reach a subscriber in the order they were
\* written to the store: when every seed and tick has finished, the snapshot
\* delivered last to each websocket that is still subscribed is the one the
\* store holds
C29_DeliveredInWriteOrder ==
    AllReturned =>
        \A g \in DOMAIN store : \A w \in StillSubscribed(g) :
            ws[w].got # << >> => ws[w].got[1] = store[g]

-----------------------------------------------------------------------------
(* Properties of the aggregator and the stream loop *)

\* dict.get: the value a reader of the state finds under a key
Get(dict, k) == IF k \in DOMAIN dict THEN dict[k] ELSE None

\* C8: a merge leaves the stored value of every source whose fetch failed
\* as it was before the merge, so a merge of an all-failed result leaves
\* every stored value as it was
C8_FailedSourceKeepsValue ==
    stream.pc = "emitting" =>
        \A k \in DOMAIN stream.new_data :
            stream.new_data[k] = None =>
                Get(current_game_data, k) = Get(stream.before, k)

\* C9: the map fetch_game_data returns has exactly the keys of the endpoints,
\* each paired with the result of its own request, whatever the other
\* requests came to; the call raises only before any request is made, never
\* because a request failed
C9_EveryKeyItsOwnResult ==
    /\ stream.pc = "merging" =>
          /\ DOMAIN stream.new_data = Range(Endpoints)
          /\ \A i \in DOMAIN Endpoints :
                stream.new_data[Endpoints[i]] =
                    FetchEndpoint(Endpoints[i], stream.outcomes[i], stream.tick)
    /\ stream.raised_in # "" => stream.tasks = NoTasks

\* the three requests ended differently and the first was the last to end
C9_Witness ==
    /\ stream.pc = "merging"
    /\ stream.outcomes = << "ok", "rejected", "failed" >>
    /\ stream.new_data["play_by_play"] = Payload("play_by_play", stream.tick)
    /\ stream.new_data["shot_chart"] = None

\* C10: after a step of a tick has failed the loop is not terminated: it is
\* backing off for 5 or has gone on to a later tick
C10_LoopSurvivesFailure ==
    stream.raised_in # "" =>
        /\ stream.pc # "terminated"
        /\ stream.pc = "sleeping" => stream.delay = 5

\* C11: when the loop has stopped on a cancellation, the tick that was in
\* flight has run to completion: it was merged and emitted
C11_InFlightTickCompletes ==
    stream.pc = "stopped" =>
        /\ stream.merged = stream.tick
        /\ stream.emitted = stream.tick

\* C26: the requests of a tick are all in flight together, the merge starts
\* only when every one of them has ended, with a body or a failure, on a map
\* that has every source, and the emit of a tick never precedes its merge
C26_MergeAfterEveryFetch ==
    /\ stream.pc = "gathering" => DOMAIN stream.tasks = DOMAIN Endpoints
    /\ stream.pc = "merging" =>
          /\ \A i \in DOMAIN Endpoints : stream.outcomes[i] \in Outcomes
          /\ DOMAIN stream.new_data = Range(Endpoints)
          /\ stream.merged = stream.tick - 1
    /\ stream.pc = "emitting" => stream.merged = stream.tick
    /\ stream.emitted <= stream.merged

\* the second tick is about to merge, after the first was emitted; its
\* requests ended with a body, a transport failure and a rejection
C26_Witness ==
    /\ stream.pc = "merging"
    /\ stream.tick = 2
    /\ stream.emitted = 1
    /\ stream.outcomes = << "ok", "failed", "rejected" >>
    /\ stream.new_data["play_by_play"] = Payload("play_by_play", 2)

\* C19: in the map fetch_game_data returns, the value of a source whose
\* request failed in the transport differs from the value of a source whose
\* request was answered with a non-success status, and both differ from a body
C19_FailureKindsToldApart ==
    stream.pc = "merging" =>
        \A i, j \in DOMAIN Endpoints :
            stream.outcomes[i] # stream.outcomes[j] =>
                stream.new_data[Endpoints[i]].kind
                    # stream.new_data[Endpoints[j]].kind

-----------------------------------------------------------------------------
(* Properties of the test endpoints: roles, error statuses, frames *)

KnownRoles == {"PG", "SG", "C"}

\* the places in the player list of the players with a role of no branch
OtherRolePlayers(snapshot) ==
    { i \in DOMAIN snapshot.player_positions :
        snapshot.player_positions[i].role \notin KnownRoles }

\* two draws of one tick that differ at most in the movement targets drawn
\* for the players other than i
SameButOtherTargets(r1, r2, i) ==
    /\ r1.chance = r2.chance
    /\ r1.shooter = r2.shooter
    /\ r1.sample = r2.sample
    /\ r1.moves[i] = r2.moves[i]
    /\ \A j \in DOMAIN r1.moves : r1.moves[j].speed = r2.moves[j].speed

\* a tick that read a snapshot and did not fail in the store
TickComputed ==
    /\ lastOp.op = "tick"
    /\ lastIn # << >>
    /\ lastOp.detail # "RedisError"

\* C31: a tick on a stored snapshot with a player whose role is none of PG,
\* SG, C (or who has no role) completes with success, persists and publishes
\* the update with that player in bounds, and the place that player moves to
\* is the same whatever targets are drawn for the other players
C31_OtherRoleTickCompletes ==
    (TickComputed /\ OtherRolePlayers(lastIn[1]) # {}) =>
        /\ lastOp.status = 200
        /\ \A g \in GameIds :
              /\ g \in DOMAIN store /\ g \in DOMAIN published
              /\ published[g] = store[g]
              /\ \A i \in OtherRolePlayers(lastIn[1]) :
                    InBounds(store[g].player_positions[i])
        /\ \A i \in OtherRolePlayers(lastIn[1]) :
              \A r1, r2 \in RandomDraws(lastIn[1]) :
                 SameButOtherTargets(r1, r2, i) =>
                    SimulateTick(lastIn[1], r1).update.player_positions[i]
                        = SimulateTick(lastIn[1], r2).update.player_positions[i]

\* C32: a tick refused because there is no store client answers with status
\* 503, a tick for a session without a stored snapshot answers with status
\* 404, and status 500 answers only a tick that failed in another way
C32_PreconditionFailuresDistinct ==
    lastOp.op = "tick" =>
        /\ redis_client = "none" => lastOp.status = 503
        /\ \A g \in GameIds :
              (redis_client = "connected" /\ g \notin DOMAIN store) =>
                  lastOp.status = 404
        /\ lastOp.status = 500 =>
              /\ redis_client = "connected"
              /\ \A g \in GameIds : g \in DOMAIN store

\* the step in which request c is made as a tick that finds no state: the
\* key of its game is absent or get_game_state returned None
TickFindsNoState(c) ==
    /\ pub[c].pc = "idle"
    /\ pub'[c].kind = "tick"
    /\ \/ pub'[c].game_id \notin DOMAIN store
       \/ pub'[c].read = "none"

\* C33: a tick requested for a session whose snapshot is absent or cannot be
\* read ends there: the step leaves the store, the registry and what every
\* websocket has received as they are, and the request never sets or sends
\* anything afterwards
C33_TickWithoutStateHasNoEffect ==
    [][ \A c \in Requests :
          /\ TickFindsNoState(c) =>
                /\ pub'[c].pc = "rejected"
                /\ UNCHANGED <<store, active_connections, ws>>
          /\ pub[c].pc = "rejected" =>
                /\ pub'[c] = pub[c]
                /\ pub[c].wrote = << >>
                /\ pub[c].sends = IdlePublish
                /\ pub[c].delivered = Empty ]_vars

\* a tick whose read of the stored snapshot of g1 failed while a websocket
\* was registered under g1, and a seed of g1 that was delivered to it
C33_Witness ==
    \E c, d \in Requests : \E w \in Subscribers :
        /\ pub[c].kind = "tick" /\ pub[c].pc = "rejected"
        /\ pub[c].game_id \in DOMAIN store
        /\ ws[w].pc = "open" /\ ws[w].game_id = pub[c].game_id
        /\ w \in Range(active_connections[pub[c].game_id])
        /\ pub[d].kind = "seed" /\ pub[d].game_id = pub[c].game_id
        /\ w \in DOMAIN pub[d].delivered
        /\ ws[w].got = pub[d].wrote

\* where a player stands and how it moves
Motion(p) == << p.x, p.y, p.velocity_x, p.velocity_y >>

\* C34: in the snapshot a tick with a shot attempt stores, the shooter has
\* the x, y, velocityX and velocityY it had in the snapshot the tick read,
\* and every other player is what the movement-and-clamp step makes of it
\* for a target and a speed of its role
C34_ShooterStaysPut ==
    TickDone =>
        \A g \in DOMAIN store :
            LET before == ClearFlags(lastIn[1].player_positions)
                after == store[g].player_positions
            IN  \A i \in DOMAIN after :
                   IF after[i].is_shooting
                   THEN Motion(after[i]) = Motion(before[i])
                   ELSE \E draw \in MoveDraws(after[i].role) :
                           after[i] = MovePlayer(before[i], draw.target,
                                                 draw.speed)

\* a tick in which the shooter was on the move when it shot and another
\* player changed place
C34_Witness ==
    /\ TickDone
    /\ \E g \in DOMAIN store :
          LET before == lastIn[1].player_positions
              after == store[g].player_positions
          IN  \E i, j \in DOMAIN after :
                 /\ after[i].is_shooting
                 /\ <<before[i].velocity_x, before[i].velocity_y>> # <<0, 0>>
                 /\ Motion(after[i]) = Motion(before[i])
                 /\ ~after[j].is_shooting
                 /\ <<after[j].x, after[j].y>> # <<before[j].x, before[j].y>>

\* C35: after a tick that read a snapshot, the stored scoreAway, quarter and
\* game_id are those of the snapshot read and scoreHome is that of the
\* snapshot read plus 0, 2 or 3; and in every snapshot that seeds and ticks
\* store or publish, scoreAway and quarter have their seeded values and
\* scoreHome is not negative
C35_ScoreboardFrame ==
    /\ (lastOp.op = "tick" /\ lastIn # << >>) =>
          \A g \in DOMAIN store :
              LET before == lastIn[1].game_state
                  after == store[g].game_state
              IN  /\ after.score_away = before.score_away
                  /\ after.quarter = before.quarter
                  /\ after.game_id = before.game_id
                  /\ after.score_home - before.score_home \in {0, 2, 3}
    /\ \A snapshot \in Snapshots :
          /\ snapshot.game_state.score_away = TestData("g0").game_state.score_away
          /\ snapshot.game_state.quarter = TestData("g0").game_state.quarter
          /\ snapshot.game_state.score_home >= 0

\* a made three-pointer on a snapshot in which the home side had scored
C35_Witness ==
    /\ TickDone
    /\ \E g \in DOMAIN store :
          LET before == lastIn[1].game_state
              after == store[g].game_state
          IN  /\ before.score_home > 0
              /\ after.score_home = before.score_home + 3
              /\ after.score_away = 0
              /\ after.quarter = 1
              /\ after.game_id = g
              /\ published[g] = store[g]

SeedDone == lastOp.op = "seed" /\ lastOp.status = 200

\* the initial snapshot: clocks 24.0 and 720.0, first quarter, no points,
\* PG at (0, 30), SG at (-15, 25), C at (0, 10), at rest, nobody shooting
IsInitialSnapshot(snapshot, game_id) ==
    LET gs == snapshot.game_state
        players == snapshot.player_positions
    IN  /\ gs.game_id = game_id
        /\ gs.shot_clock = Double(240) /\ gs.game_clock = Double(7200)
        /\ gs.quarter = 1 /\ gs.score_home = 0 /\ gs.score_away = 0
        /\ gs.last_action.text = "Game started"
        /\ Len(players) = 3
        /\ [i \in 1..3 |-> players[i].role] = << "PG", "SG", "C" >>
        /\ [i \in 1..3 |-> <<players[i].x, players[i].y>>]
              = << <<0, Ft(30)>>, <<0 - Ft(15), Ft(25)>>, <<0, Ft(10)>> >>
        /\ \A i \in 1..3 :
              /\ players[i].velocity_x = 0 /\ players[i].velocity_y = 0
              /\ ~players[i].is_shooting /\ ~players[i].shot_made

\* C36: a seed that succeeds leaves, whatever the store held, the initial
\* snapshot in the store and hands the same snapshot to the publish for the
\* session, and a seed that follows a seed changes neither
C36_SeedResets ==
    [][ (lastOp' # lastOp \/ ops' # ops) /\ SeedDone' =>
          /\ \A g \in GameIds :
                /\ g \in DOMAIN store' /\ g \in DOMAIN published'
                /\ IsInitialSnapshot(store'[g], g)
                /\ published'[g] = store'[g]
          /\ SeedDone => (store' = store /\ published' = published) ]_vars

\* the second handler run was a seed that succeeded, and the store holds
\* and the publish got the initial snapshot
C36_Witness ==
    /\ SeedDone
    /\ ops = 2
    /\ lastIn = << >>
    /\ \E g \in DOMAIN store :
          /\ IsInitialSnapshot(store[g], g)
          /\ published[g] = store[g]

====
